---- MODULE Spec2Model ----
(***************************************************************************)
(* A model of src/solver.py: the Cell and PartialSudokuState classes, the  *)
(* constraint propagation of PartialSudokuState and the backtracking       *)
(* depth_first_search driven by sudoku_solver.                             *)
(*                                                                         *)
(* Python lists are sequences (index k of the list is index k+1 here), the *)
(* 9x9 numpy array of Cell objects is a function Idx -> Idx -> Cell, and   *)
(* PartialSudokuState objects live in a heap of references so that the     *)
(* effect of copy.deepcopy in set_value is visible.                        *)
(***************************************************************************)
EXTENDS Integers, Sequences, FiniteSets, TLC

VARIABLES sudoku, heap, stack, ret, result, outcome, searched

vars == <<sudoku, heap, stack, ret, result, outcome, searched>>

(***************************************************************************)
(* Program constants                                                       *)
(***************************************************************************)
Side == 9
BoxSide == 3
Unsolvable == -1

Idx == 0..(Side - 1)
Digits == 1..Side
None == -1

(***************************************************************************)
(* Python list helpers                                                     *)
(***************************************************************************)
In(v, list) == \E k \in 1..Len(list) : list[k] = v

\* list.remove(v): drops the first occurrence of v (v is in the list)
list_remove(list, v) ==
    LET k == CHOOSE k \in 1..Len(list) :
                 list[k] = v /\ \A m \in 1..(k - 1) : list[m] # v
    IN [m \in 1..(Len(list) - 1) |-> IF m < k THEN list[m] ELSE list[m + 1]]

\* list[i] for a Python index i of a list of length n: negative counts from the end
PyIndex(i, n) == IF i < 0 THEN i + n + 1 ELSE i + 1

SetMin(S) == CHOOSE x \in S : \A y \in S : x <= y

\* the element of a one-element set; Only({e(x) : x \in {v}}) is "x = v; e(x)"
\* with v worked out once
Only(S) == CHOOSE r \in S : TRUE

(***************************************************************************)
(* Cell                                                                    *)
(***************************************************************************)
\* Cell.__init__ without the test "if value == 0": every cell gets nine candidates
Cell_always_candidates(value, row, col) ==
    [value |-> value,
     candidates |-> <<1, 2, 3, 4, 5, 6, 7, 8, 9>>,
     row |-> row,
     col |-> col]

Cell(value, row, col) ==
    [value |-> value,
     candidates |-> IF value = 0 THEN <<1, 2, 3, 4, 5, 6, 7, 8, 9>> ELSE <<>>,
     row |-> row,
     col |-> col]

get_singleton(cell) ==
    IF Len(cell.candidates) = 1 THEN cell.candidates[1] ELSE -1

(***************************************************************************)
(* PartialSudokuState                                                      *)
(***************************************************************************)
\* "if cell > 0: self._allocations[cell - 1] += 1" over the 81 cells
count_allocations(grid) ==
    [d \in 1..Side |->
        Cardinality({k \in 0..(Side * Side - 1) :
            /\ grid[k \div Side][k % Side] > 0
            /\ PyIndex(grid[k \div Side][k % Side] - 1, Side) = d})]

PartialSudokuState(grid) ==
    [allocations |-> count_allocations(grid),
     cells |-> [i \in Idx |-> [j \in Idx |-> Cell(grid[i][j], i, j)]]]

\* to_array writing a[j][i] instead of a[i][j]
to_array_transposed(S) == [i \in Idx |-> [j \in Idx |-> S.cells[j][i].value]]

to_array(S) == [i \in Idx |-> [j \in Idx |-> S.cells[i][j].value]]

\* is_goal looking at the first row only
is_goal_first_row(S) == ~\E j \in Idx : S.cells[0][j].value = 0

\* all(all(value != 0 ...)): no cell of to_array() is 0
is_goal(S) == ~\E i \in Idx : \E j \in Idx : to_array(S)[i][j] = 0

\* row_valid and col_valid turn False when a value > 0 was met before in the
\* same row, respectively column
valid_rows_and_cols(S) ==
    LET row_valid == ~\E i \in Idx : \E j \in Idx : \E m \in Idx :
            /\ m < j
            /\ S.cells[i][j].value > 0
            /\ S.cells[i][m].value = S.cells[i][j].value
        col_valid == ~\E i \in Idx : \E j \in Idx : \E m \in Idx :
            /\ m < j
            /\ S.cells[j][i].value > 0
            /\ S.cells[m][i].value = S.cells[j][i].value
    IN row_valid /\ col_valid

BoxStarts == {0, 3, 6}

\* valid turns False when a value > 0 was met before in the same box
valid_boxes(S) ==
    ~\E i \in BoxStarts : \E j \in BoxStarts :
        \E k, p \in i..(i + 2) : \E l, q \in j..(j + 2) :
            /\ <<k, l>> # <<p, q>>
            /\ S.cells[k][l].value > 0
            /\ S.cells[p][q].value = S.cells[k][l].value

\* is_valid without the call of valid_rows_and_cols
is_valid_boxes_only(S) == valid_boxes(S)

is_valid(S) == valid_rows_and_cols(S) /\ valid_boxes(S)

\* box_row_start / box_col_start of propagate_box and update_box
box_start(x) == (IF x > 2 THEN 3 ELSE 0) + (IF x > 5 THEN 3 ELSE 0)

\* the "current.value == 0 and cell.value in current.candidates: remove" step
strike(current, value) ==
    IF current.value = 0 /\ In(value, current.candidates)
    THEN [current EXCEPT !.candidates = list_remove(@, value)]
    ELSE current

propagate_row(S, cell) ==
    [S EXCEPT !.cells[cell.row] = [i \in Idx |-> strike(@[i], cell.value)]]

propagate_col(S, cell) ==
    [S EXCEPT !.cells = [i \in Idx |->
        [@[i] EXCEPT ![cell.col] = strike(@, cell.value)]]]

propagate_box(S, cell) ==
    LET box_row_start == box_start(cell.row)
        box_col_start == box_start(cell.col)
    IN [S EXCEPT !.cells = [i \in Idx |-> [j \in Idx |->
            IF /\ i \in box_row_start..(box_row_start + 2)
               /\ j \in box_col_start..(box_col_start + 2)
            THEN strike(@[i][j], cell.value)
            ELSE @[i][j]]]]

\* propagate without self.propagate_box(cell)
propagate_without_box(S, cell) ==
    Only({propagate_col(S1, cell) : S1 \in {propagate_row(S, cell)}})

propagate(S, cell) ==
    Only({propagate_box(S2, cell) :
            S2 \in {propagate_col(S1, cell) :
                      S1 \in {propagate_row(S, cell)}}})

\* "if current in cell.candidates: cell.candidates.remove(current)" for every
\* value seen in one unit: the candidates that are not among the values seen
\* stay, in their order (a candidate list never holds a digit twice)
update_from(candidates, seen) ==
    SelectSeq(candidates, LAMBDA x : ~In(x, seen))

update_row(S, cell) ==
    [S EXCEPT !.cells[cell.row][cell.col].candidates =
        update_from(@, [i \in 1..Side |-> S.cells[cell.row][i - 1].value])]

update_col(S, cell) ==
    [S EXCEPT !.cells[cell.row][cell.col].candidates =
        update_from(@, [i \in 1..Side |-> S.cells[i - 1][cell.col].value])]

update_box(S, cell) ==
    LET box_row_start == box_start(cell.row)
        box_col_start == box_start(cell.col)
    IN [S EXCEPT !.cells[cell.row][cell.col].candidates =
        update_from(@, [n \in 1..Side |->
            S.cells[box_row_start + ((n - 1) \div BoxSide)]
                   [box_col_start + ((n - 1) % BoxSide)].value])]

\* update_candidates without the call of update_col
update_candidates_no_col(S, cell) ==
    Only({update_box(S1, cell) : S1 \in {update_row(S, cell)}})

update_candidates(S, cell) ==
    Only({update_col(S2, cell) :
            S2 \in {update_box(S1, cell) :
                      S1 \in {update_row(S, cell)}}})

CellAt(S, k) == S.cells[k \div Side][k % Side]

\* set_value_in_state without "self.allocations[new_value - 1] += 1"
set_value_in_state_uncounted(S, cell, new_value) ==
    Only({Only({propagate(S1, new_cell) :
                  S1 \in {[S EXCEPT !.cells[cell.row][cell.col] = new_cell]}}) :
            new_cell \in {Cell(new_value, cell.row, cell.col)}})

\* set_value_in_state up to and including self.propagate(new_cell); the call
\* of singleton_sweep that ends it is the activation pushed by the caller
set_value_in_state(S, cell, new_value) ==
    Only({Only({propagate(S1, new_cell) :
                  S1 \in {[S EXCEPT
                      !.cells[cell.row][cell.col] = new_cell,
                      !.allocations[PyIndex(new_value - 1, Side)] = @ + 1]}}) :
            new_cell \in {Cell(new_value, cell.row, cell.col)}})

(***************************************************************************)
(* Sole appearance sweeps.  A unit is the sequence of the nine positions   *)
(* of a row, a column or a box in the order the loops visit them.          *)
(***************************************************************************)
RowUnit(i) == [j \in 1..Side |-> <<i, j - 1>>]
ColUnit(i) == [j \in 1..Side |-> <<j - 1, i>>]
BoxUnit(i, j) == [n \in 1..Side |->
                    <<i + ((n - 1) \div BoxSide), j + ((n - 1) % BoxSide)>>]

Rows == [n \in 1..Side |-> RowUnit(n - 1)]
Cols == [n \in 1..Side |-> ColUnit(n - 1)]
Boxes == [n \in 1..Side |-> BoxUnit(BoxSide * ((n - 1) \div BoxSide),
                                    BoxSide * ((n - 1) % BoxSide))]

UnitCell(S, unit, j) == S.cells[unit[j][1]][unit[j][2]]

\* the candidates met by the first loop nest over a unit, in visiting order
unit_stream(S, unit) ==
    LET met(j) == IF UnitCell(S, unit, j).value = 0
                  THEN UnitCell(S, unit, j).candidates
                  ELSE <<>>
    IN met(1) \o met(2) \o met(3) \o met(4) \o met(5)
          \o met(6) \o met(7) \o met(8) \o met(9)

Occurrences(list, x) == Cardinality({k \in 1..Len(list) : list[k] = x})

\* row_candidates / col_candidates / box_candidates of one unit: a digit is
\* appended when first met, removed (and put in duplicates) when met again
\* and ignored from then on, so the list ends as the digits met exactly
\* once, in the order they were met
unit_candidates(S, unit) ==
    Only({SelectSeq(stream, LAMBDA x : Occurrences(stream, x) = 1) :
            stream \in {unit_stream(S, unit)}})

get_allocations(S) == S.allocations

(***************************************************************************)
(* Search heuristics                                                       *)
(***************************************************************************)
\* cell_choices: the cells with value 0 in row-major order
cell_choices_of(S) ==
    Only({[n \in 1..Cardinality(zero) |->
              CellAt(S, CHOOSE k \in zero :
                           Cardinality({m \in zero : m < k}) = n - 1)] :
            zero \in {{k \in 0..(Side * Side - 1) : CellAt(S, k).value = 0}}})

\* the loop of next_cell comparing with "<=": the last cell with the least
\* number of candidates
min_cell_of_last_minimum(cell_choices) ==
    LET size(k) == Len(cell_choices[k].candidates)
        start == Cell(0, -1, -1)
    IN Only({IF beats = {} THEN <<start, FALSE>>
             ELSE <<cell_choices[-SetMin({-k : k \in {k \in beats :
                        \A m \in beats : size(k) <= size(m)}})], TRUE>> :
               beats \in {{k \in 1..Len(cell_choices) :
                              size(k) < Len(start.candidates)}}})

\* the loop of next_cell passing over the cells that have no candidate
min_cell_of_skipping_empty(cell_choices) ==
    LET size(k) == Len(cell_choices[k].candidates)
        start == Cell(0, -1, -1)
    IN Only({IF beats = {} THEN <<start, FALSE>>
             ELSE <<cell_choices[SetMin({k \in beats :
                        \A m \in beats : size(k) <= size(m)})], TRUE>> :
               beats \in {{k \in 1..Len(cell_choices) :
                              size(k) > 0 /\ size(k) < Len(start.candidates)}}})

\* the loop of next_cell without "chosen = True"
min_cell_of_never_chosen(cell_choices) ==
    LET size(k) == Len(cell_choices[k].candidates)
        start == Cell(0, -1, -1)
    IN Only({IF beats = {} THEN <<start, FALSE>>
             ELSE <<cell_choices[SetMin({k \in beats :
                        \A m \in beats : size(k) <= size(m)})], FALSE>> :
               beats \in {{k \in 1..Len(cell_choices) :
                              size(k) < Len(start.candidates)}}})

\* the loop "for cell in cell_choices" as <<min_cell, chosen>>: min_cell is
\* replaced only by a cell with strictly fewer candidates, so it ends as the
\* first cell with the least number of candidates, if that is less than the
\* nine candidates of the initial Cell(value=0)
min_cell_of(cell_choices) ==
    LET size(k) == Len(cell_choices[k].candidates)
        start == Cell(0, -1, -1)
    IN Only({IF beats = {} THEN <<start, FALSE>>
             ELSE <<cell_choices[SetMin({k \in beats :
                        \A m \in beats : size(k) <= size(m)})], TRUE>> :
               beats \in {{k \in 1..Len(cell_choices) :
                              size(k) < Len(start.candidates)}}})

MaxChoices == 2

\* random.choice(list): any element of the list, none when the list is empty
\* (IndexError); of the elements, MaxChoices spread over the list are followed
random_choice(list) ==
    {list[((40 * n) % Len(list)) + 1] :
        n \in {m \in 0..(MaxChoices - 1) : Len(list) > 0}}

\* the cells next_cell can return; {} when random.choice raises on an empty list
next_cell(S) ==
    Only({Only({IF ~best[2]
                THEN random_choice(cell_choices)
                ELSE {best[1]} :
                  best \in {min_cell_of(cell_choices)}}) :
            cell_choices \in {cell_choices_of(S)}})

\* tuple comparison of the pairs (allocation, value)
PairLess(p, q) == p[1] < q[1] \/ (p[1] = q[1] /\ p[2] < q[2])

\* sorted(): ascending and stable; each pair goes after the pairs that are
\* smaller and after the equal pairs that come before it
sorted(pairs) ==
    LET before(k) == {m \in 1..Len(pairs) :
                         \/ PairLess(pairs[m], pairs[k])
                         \/ (~PairLess(pairs[k], pairs[m]) /\ m < k)}
    IN [n \in 1..Len(pairs) |->
           pairs[CHOOSE k \in 1..Len(pairs) : Cardinality(before(k)) = n - 1]]

Min2(a, b) == IF a < b THEN a ELSE b

\* zip that stops one pair early
zip_one_short(xs, ys) ==
    [k \in 1..(Min2(Len(xs), Len(ys)) - 1) |-> <<xs[k], ys[k]>>]

zip(xs, ys) == [k \in 1..Min2(Len(xs), Len(ys)) |-> <<xs[k], ys[k]>>]

\* order_values that keeps the first of the sorted values only
order_values_first_only(cell, S) ==
    LET values == cell.candidates
        allocations == get_allocations(S)
    IN Only({[k \in 1..Min2(1, Len(ordered)) |-> ordered[k][2]] :
               ordered \in {sorted(pairs) :
                              pairs \in {zip(allocations, values)}}})

order_values(cell, S) ==
    LET values == cell.candidates
        allocations == get_allocations(S)
    IN Only({[k \in 1..Len(ordered) |-> ordered[k][2]] :
               ordered \in {sorted(pairs) :
                              pairs \in {zip(allocations, values)}}})

(***************************************************************************)
(* The heap of PartialSudokuState objects                                  *)
(***************************************************************************)
fresh(h) == SetMin({id \in 0..Cardinality(DOMAIN h) : id \notin DOMAIN h})

\* "state = self" in place of copy.deepcopy(self): the copy is the receiver
deepcopy_aliased(h, self) == [heap |-> h, ref |-> self]

\* copy.deepcopy(self): the heap after the copy and the reference to the copy
deepcopy(h, self) ==
    [heap |-> (fresh(h) :> h[self]) @@ h, ref |-> fresh(h)]

(***************************************************************************)
(* Input grids: a solved grid, blanked by a mask, with at most one cell    *)
(* overwritten.                                                            *)
(***************************************************************************)
MaxMask == 3
MaxPokeDigit == 3
MaxShift == 1

\* a solved grid, its digits moved on by s
Solved(s) == [r \in Idx |-> [c \in Idx |->
                 (((r % BoxSide) * BoxSide + (r \div BoxSide) + c + s) % Side) + 1]]

\* mask m blanks about m sixths of the grid; mask 0 leaves it solved
Blank(m, r, c) == ((r + 4 * c) % 6) < m

Masked(m, s) == [r \in Idx |-> [c \in Idx |->
                    IF Blank(m, r, c) THEN 0 ELSE Solved(s)[r][c]]]

PokeCells == {19, 46, 73}

Poked(m, s, k, d) == [Masked(m, s) EXCEPT ![k \div Side][k % Side] = d]

\* the grid without a given
Empty == [r \in Idx |-> [c \in Idx |-> 0]]

Inputs ==
    {Empty}
    \cup {Masked(m, s) : m \in 0..MaxMask, s \in 0..MaxShift}
    \cup {Poked(m, s, k, d) : m \in 0..MaxMask, s \in 0..MaxShift,
                               k \in PokeCells, d \in 0..MaxPokeDigit}

Full(v) == [i \in Idx |-> [j \in Idx |-> v]]

(***************************************************************************)
(* The program as a state machine.  stack holds the activations of the     *)
(* running functions, innermost last; ret is the value the last finished   *)
(* call returned; heap maps references to PartialSudokuState objects.      *)
(***************************************************************************)
Frame(fn, self, pc) ==
    [fn |-> fn, self |-> self, pc |-> pc, k |-> 0, n |-> 0,
     found |-> <<>>, cell |-> None, values |-> <<>>]

Top == stack[Len(stack)]
Pop == SubSeq(stack, 1, Len(stack) - 1)
SetTop(f) == [stack EXCEPT ![Len(stack)] = f]
Running(fn) == stack # <<>> /\ Top.fn = fn
At(fn, pc) == stack # <<>> /\ Top.fn = fn /\ Top.pc = pc

\* the object the running method works on
Self == heap[Top.self]

\* references held by the active calls and by the value being returned
Live(stk, r) == {0, r} \cup {stk[k].self : k \in 1..Len(stk)}

Collect(h, stk, r) == [id \in DOMAIN h \cap Live(stk, r) |-> h[id]]

Init ==
    /\ sudoku \in Inputs
    /\ heap = (0 :> PartialSudokuState(sudoku))
    /\ stack = <<Frame("sudoku_solver", 0, "start")>>
    /\ ret = None
    /\ result = None
    /\ outcome = "running"
    /\ searched = FALSE

(***************************************************************************)
(* minimise                                                                *)
(***************************************************************************)
\* sudoku_solver: state.minimise()
CallMinimise ==
    /\ At("sudoku_solver", "start")
    /\ stack' = Append(SetTop([Top EXCEPT !.pc = "minimised"]),
                       Frame("minimise", Top.self, "loop"))
    /\ UNCHANGED <<sudoku, heap, ret, result, outcome, searched>>

\* cells of the double loop from cell number k on that have value 0
MinimiseTodo == {m \in Top.k..(Side * Side - 1) : CellAt(Self, m).value = 0}

\* minimise: update_candidates(cell) leaves a number of candidates other than one
MinimiseUpdate ==
    /\ Running("minimise")
    /\ MinimiseTodo # {}
    /\ \E m \in {SetMin(MinimiseTodo)} :
       \E S1 \in {update_candidates(Self, CellAt(Self, m))} :
          /\ Len(CellAt(S1, m).candidates) # 1
          /\ heap' = [heap EXCEPT ![Top.self] = S1]
          /\ stack' = SetTop([Top EXCEPT !.k = m + 1])
    /\ UNCHANGED <<sudoku, ret, result, outcome, searched>>

\* minimise: update_candidates(cell) leaves one candidate: set_value_in_state
MinimiseSet ==
    /\ Running("minimise")
    /\ MinimiseTodo # {}
    /\ \E m \in {SetMin(MinimiseTodo)} :
       \E S1 \in {update_candidates(Self, CellAt(Self, m))} :
       \E cell \in {CellAt(S1, m)} :
          /\ Len(cell.candidates) = 1
          /\ heap' = [heap EXCEPT ![Top.self] =
                         set_value_in_state(S1, cell, get_singleton(cell))]
          /\ stack' = Append(SetTop([Top EXCEPT !.k = m + 1]),
                             Frame("singleton_sweep", Top.self, "loop"))
    /\ UNCHANGED <<sudoku, ret, result, outcome, searched>>

\* minimise: the loops are over
MinimiseReturn ==
    /\ Running("minimise")
    /\ MinimiseTodo = {}
    /\ stack' = Pop
    /\ UNCHANGED <<sudoku, heap, ret, result, outcome, searched>>

(***************************************************************************)
(* singleton_sweep                                                         *)
(***************************************************************************)
\* cells of the double loop from cell number k on that have one candidate
SingletonHits ==
    {m \in Top.k..(Side * Side - 1) : Len(CellAt(Self, m).candidates) = 1}

\* set_value_in_state called from singleton_sweep without its own
\* self.singleton_sweep()
SingletonSet_uncascaded ==
    /\ Running("singleton_sweep")
    /\ SingletonHits # {}
    /\ \E m \in {SetMin(SingletonHits)} :
       \E cell \in {CellAt(Self, m)} :
          /\ heap' = [heap EXCEPT ![Top.self] =
                         set_value_in_state(Self, cell, get_singleton(cell))]
          /\ stack' = SetTop([Top EXCEPT !.k = m + 1])
    /\ UNCHANGED <<sudoku, ret, result, outcome, searched>>

\* singleton_sweep: self.set_value_in_state(cell, cell.get_singleton())
SingletonSet ==
    /\ Running("singleton_sweep")
    /\ SingletonHits # {}
    /\ \E m \in {SetMin(SingletonHits)} :
       \E cell \in {CellAt(Self, m)} :
          /\ heap' = [heap EXCEPT ![Top.self] =
                         set_value_in_state(Self, cell, get_singleton(cell))]
          /\ stack' = Append(SetTop([Top EXCEPT !.k = m + 1]),
                             Frame("singleton_sweep", Top.self, "loop"))
    /\ UNCHANGED <<sudoku, ret, result, outcome, searched>>

\* singleton_sweep: the loops are over; set_value_in_state returns with it
SingletonReturn ==
    /\ Running("singleton_sweep")
    /\ SingletonHits = {}
    /\ stack' = Pop
    /\ UNCHANGED <<sudoku, heap, ret, result, outcome, searched>>

(***************************************************************************)
(* sole_appearance_sweep and its row, column and box sweeps                *)
(***************************************************************************)
SweepFn == {"sole_appearance_sweep_row", "sole_appearance_sweep_col",
            "sole_appearance_sweep_box"}

Units(fn) == IF fn = "sole_appearance_sweep_row" THEN Rows
             ELSE IF fn = "sole_appearance_sweep_col" THEN Cols
             ELSE Boxes

\* sole_appearance_sweep: self.sole_appearance_sweep_row()
SweepRows ==
    /\ At("sole_appearance_sweep", "row")
    /\ stack' = Append(SetTop([Top EXCEPT !.pc = "col"]),
                   [Frame("sole_appearance_sweep_row", Top.self, "scan")
                        EXCEPT !.k = 1])
    /\ UNCHANGED <<sudoku, heap, ret, result, outcome, searched>>

\* sole_appearance_sweep: self.sole_appearance_sweep_col()
SweepCols ==
    /\ At("sole_appearance_sweep", "col")
    /\ stack' = Append(SetTop([Top EXCEPT !.pc = "box"]),
                   [Frame("sole_appearance_sweep_col", Top.self, "scan")
                        EXCEPT !.k = 1])
    /\ UNCHANGED <<sudoku, heap, ret, result, outcome, searched>>

\* sole_appearance_sweep without self.sole_appearance_sweep_box()
SweepBoxes_skipped ==
    /\ At("sole_appearance_sweep", "box")
    /\ stack' = SetTop([Top EXCEPT !.pc = "end"])
    /\ UNCHANGED <<sudoku, heap, ret, result, outcome, searched>>

\* sole_appearance_sweep: self.sole_appearance_sweep_box()
SweepBoxes ==
    /\ At("sole_appearance_sweep", "box")
    /\ stack' = Append(SetTop([Top EXCEPT !.pc = "end"]),
                   [Frame("sole_appearance_sweep_box", Top.self, "scan")
                        EXCEPT !.k = 1])
    /\ UNCHANGED <<sudoku, heap, ret, result, outcome, searched>>

SweepReturn ==
    /\ At("sole_appearance_sweep", "end")
    /\ stack' = Pop
    /\ UNCHANGED <<sudoku, heap, ret, result, outcome, searched>>

\* units from unit number k on whose candidate list comes out non-empty
UnitBusy ==
    {u \in Top.k..Side : unit_candidates(Self, Units(Top.fn)[u]) # <<>>}

\* the first loop nest of the next unit that has a sole appearance; the
\* units before it have an empty candidate list and change nothing
UnitScan ==
    /\ stack # <<>> /\ Top.fn \in SweepFn /\ Top.pc = "scan"
    /\ UnitBusy # {}
    /\ \E u \in {SetMin(UnitBusy)} :
          stack' = SetTop([Top EXCEPT
              !.k = u, !.n = 0, !.pc = "fill",
              !.found = unit_candidates(Self, Units(Top.fn)[u])])
    /\ UNCHANGED <<sudoku, heap, ret, result, outcome, searched>>

\* the outer loop over the units is over
UnitReturn ==
    /\ stack # <<>> /\ Top.fn \in SweepFn /\ Top.pc = "scan"
    /\ UnitBusy = {}
    /\ stack' = Pop
    /\ UNCHANGED <<sudoku, heap, ret, result, outcome, searched>>

\* iterations n = (k - 1) * 9 + (j - 1) of the second loop nest, from Top.n
\* on, whose test "candidate in current.candidates" succeeds
FillHits ==
    {m \in Top.n..(Len(Top.found) * Side - 1) :
        In(Top.found[(m \div Side) + 1],
           UnitCell(Self, Units(Top.fn)[Top.k], (m % Side) + 1).candidates)}

\* self.set_value_in_state(current, candidate)
UnitFill ==
    /\ stack # <<>> /\ Top.fn \in SweepFn /\ Top.pc = "fill"
    /\ FillHits # {}
    /\ \E m \in {SetMin(FillHits)} :
       \E current \in {UnitCell(Self, Units(Top.fn)[Top.k], (m % Side) + 1)} :
          /\ heap' = [heap EXCEPT ![Top.self] =
                 set_value_in_state(Self, current, Top.found[(m \div Side) + 1])]
          /\ stack' = Append(SetTop([Top EXCEPT !.n = m + 1, !.pc = "resweep"]),
                             Frame("singleton_sweep", Top.self, "loop"))
    /\ UNCHANGED <<sudoku, ret, result, outcome, searched>>

\* self.sole_appearance_sweep() after the set_value_in_state of the second loop nest
UnitResweep ==
    /\ stack # <<>> /\ Top.fn \in SweepFn /\ Top.pc = "resweep"
    /\ stack' = Append(SetTop([Top EXCEPT !.pc = "fill"]),
                       Frame("sole_appearance_sweep", Top.self, "row"))
    /\ UNCHANGED <<sudoku, heap, ret, result, outcome, searched>>

\* the second loop nest of the unit is over: next unit
UnitNext ==
    /\ stack # <<>> /\ Top.fn \in SweepFn /\ Top.pc = "fill"
    /\ FillHits = {}
    /\ stack' = SetTop([Top EXCEPT !.k = @ + 1, !.pc = "scan"])
    /\ UNCHANGED <<sudoku, heap, ret, result, outcome, searched>>

(***************************************************************************)
(* set_value                                                               *)
(***************************************************************************)
\* set_value: state.sole_appearance_sweep()
SetValueSweep ==
    /\ At("set_value", "sweep")
    /\ stack' = Append(SetTop([Top EXCEPT !.pc = "return"]),
                       Frame("sole_appearance_sweep", Top.self, "row"))
    /\ UNCHANGED <<sudoku, heap, ret, result, outcome, searched>>

\* set_value: return state
SetValueReturn ==
    /\ At("set_value", "return")
    /\ ret' = Top.self
    /\ stack' = Pop
    /\ UNCHANGED <<sudoku, heap, result, outcome, searched>>

(***************************************************************************)
(* depth_first_search                                                      *)
(***************************************************************************)
\* depth_first_search: cell = next_cell(state); values = order_values(cell, state);
\* random.choice raises IndexError when cell_choices is empty
DfsEnter ==
    /\ At("depth_first_search", "enter")
    /\ IF next_cell(Self) = {}
       THEN /\ stack' = <<>>
            /\ outcome' = "raised"
       ELSE /\ \E cell \in next_cell(Self) :
                   stack' = SetTop([Top EXCEPT
                       !.cell = cell,
                       !.values = order_values(cell, Self),
                       !.k = 1,
                       !.pc = "loop"])
            /\ UNCHANGED outcome
    /\ searched' = TRUE
    /\ UNCHANGED <<sudoku, heap, ret, result>>

\* depth_first_search: new_state = state.set_value(cell, value), up to the
\* call of singleton_sweep that ends set_value_in_state
DfsTry ==
    /\ At("depth_first_search", "loop")
    /\ Top.k <= Len(Top.values)
    /\ \E copy \in {deepcopy(heap, Top.self)} :
          /\ heap' = [copy.heap EXCEPT ![copy.ref] =
                         set_value_in_state(@, Top.cell, Top.values[Top.k])]
          /\ stack' = SetTop([Top EXCEPT !.pc = "made"])
                        \o <<Frame("set_value", copy.ref, "sweep"),
                             Frame("singleton_sweep", copy.ref, "loop")>>
    /\ UNCHANGED <<sudoku, ret, result, outcome, searched>>

\* depth_first_search: new_state is valid and a goal: return new_state
DfsGoal ==
    /\ At("depth_first_search", "made")
    /\ is_valid(heap[ret]) /\ is_goal(heap[ret])
    /\ stack' = Pop
    /\ heap' = Collect(heap, Pop, ret)
    /\ UNCHANGED <<sudoku, ret, result, outcome, searched>>

\* depth_first_search(state) in place of depth_first_search(new_state)
DfsDescend_same_state ==
    /\ At("depth_first_search", "made")
    /\ is_valid(heap[ret]) /\ ~is_goal(heap[ret])
    /\ stack' = Append(SetTop([Top EXCEPT !.pc = "deep"]),
                       Frame("depth_first_search", Top.self, "enter"))
    /\ ret' = None
    /\ UNCHANGED <<sudoku, heap, result, outcome, searched>>

\* depth_first_search: deep_state = depth_first_search(new_state)
DfsDescend ==
    /\ At("depth_first_search", "made")
    /\ is_valid(heap[ret]) /\ ~is_goal(heap[ret])
    /\ stack' = Append(SetTop([Top EXCEPT !.pc = "deep"]),
                       Frame("depth_first_search", ret, "enter"))
    /\ ret' = None
    /\ UNCHANGED <<sudoku, heap, result, outcome, searched>>

\* depth_first_search: the values are exhausted: return None
DfsExhausted ==
    /\ At("depth_first_search", "loop")
    /\ Top.k > Len(Top.values)
    /\ ret' = None
    /\ stack' = Pop
    /\ heap' = Collect(heap, Pop, None)
    /\ UNCHANGED <<sudoku, result, outcome, searched>>

\* depth_first_search: deep_state is not None and is a goal: return deep_state
DfsPass ==
    /\ At("depth_first_search", "deep")
    /\ ret # None /\ is_goal(heap[ret])
    /\ stack' = Pop
    /\ heap' = Collect(heap, Pop, ret)
    /\ UNCHANGED <<sudoku, ret, result, outcome, searched>>

\* depth_first_search: next value, when new_state is not valid or when
\* deep_state is None or not a goal
DfsNext ==
    /\ Running("depth_first_search")
    /\ IF Top.pc = "made" THEN ~is_valid(heap[ret])
       ELSE Top.pc = "deep" /\ ~(ret # None /\ is_goal(heap[ret]))
    /\ stack' = SetTop([Top EXCEPT !.k = @ + 1, !.pc = "loop"])
    /\ ret' = None
    /\ heap' = Collect(heap, stack, None)
    /\ UNCHANGED <<sudoku, result, outcome, searched>>

(***************************************************************************)
(* sudoku_solver                                                           *)
(***************************************************************************)
\* "if state.is_goal(): return state.to_array()", the validity test left out
ReturnMinimised_unchecked ==
    /\ At("sudoku_solver", "minimised")
    /\ is_goal(Self)
    /\ result' = to_array(Self)
    /\ outcome' = "returned"
    /\ stack' = Pop
    /\ UNCHANGED <<sudoku, heap, ret, searched>>

\* sudoku_solver: if state.is_valid() and state.is_goal(): return state.to_array()
ReturnMinimised ==
    /\ At("sudoku_solver", "minimised")
    /\ is_valid(Self) /\ is_goal(Self)
    /\ result' = to_array(Self)
    /\ outcome' = "returned"
    /\ stack' = Pop
    /\ UNCHANGED <<sudoku, heap, ret, searched>>

\* sudoku_solver: if not state.is_valid(): return np.full((9, 9), -1)
ReturnInvalid ==
    /\ At("sudoku_solver", "minimised")
    /\ ~(is_valid(Self) /\ is_goal(Self))
    /\ ~is_valid(Self)
    /\ result' = Full(Unsolvable)
    /\ outcome' = "returned"
    /\ stack' = Pop
    /\ UNCHANGED <<sudoku, heap, ret, searched>>

\* sudoku_solver going on to the search from a state that is a goal
Search_from_goal ==
    /\ At("sudoku_solver", "minimised")
    /\ is_valid(Self)
    /\ stack' = Append(SetTop([Top EXCEPT !.pc = "searched"]),
                       Frame("depth_first_search", Top.self, "enter"))
    /\ UNCHANGED <<sudoku, heap, ret, result, outcome, searched>>

\* sudoku_solver: solution = depth_first_search(state)
Search ==
    /\ At("sudoku_solver", "minimised")
    /\ ~(is_valid(Self) /\ is_goal(Self))
    /\ is_valid(Self)
    /\ stack' = Append(SetTop([Top EXCEPT !.pc = "searched"]),
                       Frame("depth_first_search", Top.self, "enter"))
    /\ UNCHANGED <<sudoku, heap, ret, result, outcome, searched>>

\* sudoku_solver: if solution is None: return np.full((9, 9), -1)
ReturnUnsolvable ==
    /\ At("sudoku_solver", "searched")
    /\ ret = None
    /\ result' = Full(Unsolvable)
    /\ outcome' = "returned"
    /\ stack' = Pop
    /\ UNCHANGED <<sudoku, heap, ret, searched>>

\* sudoku_solver: return solution.to_array()
ReturnSolution ==
    /\ At("sudoku_solver", "searched")
    /\ ret # None
    /\ result' = to_array(heap[ret])
    /\ outcome' = "returned"
    /\ stack' = Pop
    /\ UNCHANGED <<sudoku, heap, ret, searched>>

Next ==
    \/ CallMinimise
    \/ MinimiseUpdate
    \/ MinimiseSet
    \/ MinimiseReturn
    \/ SingletonSet
    \/ SingletonReturn
    \/ SweepRows
    \/ SweepCols
    \/ SweepBoxes
    \/ SweepReturn
    \/ UnitScan
    \/ UnitReturn
    \/ UnitFill
    \/ UnitResweep
    \/ UnitNext
    \/ SetValueSweep
    \/ SetValueReturn
    \/ DfsEnter
    \/ DfsTry
    \/ DfsGoal
    \/ DfsDescend
    \/ DfsExhausted
    \/ DfsPass
    \/ DfsNext
    \/ ReturnMinimised
    \/ ReturnInvalid
    \/ Search
    \/ ReturnUnsolvable
    \/ ReturnSolution

Spec == Init /\ [][Next]_vars

\* the sequential program always takes its next step
FairSpec == Spec /\ WF_vars(Next)

(***************************************************************************)
(* Properties                                                              *)
(***************************************************************************)
Positions == 0..(Side * Side - 1)

At2(grid, k) == grid[k \div Side][k % Side]

\* two different positions that share a row, a column or a 3x3 box
Peers(a, b) ==
    /\ a # b
    /\ \/ a \div Side = b \div Side
       \/ a % Side = b % Side
       \/ /\ (a \div Side) \div BoxSide = (b \div Side) \div BoxSide
          /\ (a % Side) \div BoxSide = (b % Side) \div BoxSide

AllUnits == {Rows[n] : n \in 1..Side} \cup {Cols[n] : n \in 1..Side}
                \cup {Boxes[n] : n \in 1..Side}

Returned == outcome = "returned"

ReturnedSolved == Returned /\ result # Full(Unsolvable)

ReturnedUnsolvable == Returned /\ result = Full(Unsolvable)

HasBlank(grid) == \E k \in Positions : At2(grid, k) = 0

\* two cells of one row, column or box of grid hold the same digit
Duplicate(grid) ==
    \E unit \in AllUnits : \E i, j \in 1..Side :
        /\ i < j
        /\ grid[unit[i][1]][unit[i][2]] # 0
        /\ grid[unit[i][1]][unit[i][2]] = grid[unit[j][1]][unit[j][2]]

DuplicateGivens == Duplicate(sudoku)

\* full is a completion of grid
Completes(full, grid) ==
    \A k \in Positions : At2(grid, k) # 0 => At2(grid, k) = At2(full, k)

\* the input is one of the solved grids with cells blanked
KnownCompletion == \E s \in 0..(Side - 1) : Completes(Solved(s), sudoku)

GivensKept(grid) == Completes(grid, sudoku)

\* C1: whenever sudoku_solver returns a grid other than the all -1 grid,
\* every row, every column and every 3x3 box of it holds each digit 1..9
\* exactly once.
C1_ReturnedGridValid ==
    ReturnedSolved =>
        \A unit \in AllUnits : \A d \in Digits :
            Cardinality({j \in 1..Side :
                result[unit[j][1]][unit[j][2]] = d}) = 1

\* a grid with blanks was solved by the search
C1_Witness == ReturnedSolved /\ searched /\ HasBlank(sudoku)

\* C2: for an input that has a completion (here: one of the solved grids
\* with cells blanked, one cell possibly blanked more), sudoku_solver does
\* not raise and returns a grid of digits, never the all -1 grid.
C2_Complete ==
    KnownCompletion =>
        /\ outcome # "raised"
        /\ Returned =>
              /\ result # Full(Unsolvable)
              /\ \A k \in Positions : At2(result, k) \in Digits

\* a grid with a completion came back from the search, solved
C2_Witness == KnownCompletion /\ ReturnedSolved /\ searched

\* C3: every PartialSudokuState reached from the input grid, and every
\* returned solved grid, holds the input's value in each cell that is
\* non-zero in the input; and no step changes the value of a cell whose
\* value is not 0.
C3_GivensKept ==
    /\ [](/\ \A id \in DOMAIN heap : GivensKept(to_array(heap[id]))
          /\ ReturnedSolved => GivensKept(result))
    /\ [][\A id \in DOMAIN heap \cap DOMAIN heap' : \A k \in Positions :
              CellAt(heap[id], k).value # 0 =>
                  CellAt(heap'[id], k).value = CellAt(heap[id], k).value]_vars

\* givens and blanks went in, a solved grid with the blanks filled came out
C3_Witness ==
    /\ ReturnedSolved
    /\ HasBlank(sudoku)
    /\ \E k \in Positions : At2(sudoku, k) # 0
    /\ \E id \in DOMAIN heap : id # 0 /\ to_array(heap[id]) # sudoku

\* C4: when two given cells of one row, column or box of the input hold the
\* same digit, sudoku_solver returns the all -1 grid, does not raise and
\* never calls depth_first_search.
C4_DuplicateGivensUnsolvable ==
    DuplicateGivens =>
        /\ outcome # "raised"
        /\ ~searched
        /\ Returned => result = Full(Unsolvable)

\* a grid with duplicate givens and blanks was answered
C4_Witness == DuplicateGivens /\ HasBlank(sudoku) /\ ReturnedUnsolvable

\* C5: for an input without a zero cell and without a duplicate in any row,
\* column or box, sudoku_solver returns a grid equal to the input and never
\* calls depth_first_search.
C5_SolvedGridUnchanged ==
    (~HasBlank(sudoku) /\ ~DuplicateGivens) =>
        /\ outcome # "raised"
        /\ ~searched
        /\ Returned => result = sudoku

\* a solved input was answered
C5_Witness == ~HasBlank(sudoku) /\ ~DuplicateGivens /\ Returned

\* C6: sudoku_solver never raises, it returns, and what it returns is a grid
\* of 81 digits 1..9 or the grid of 81 times -1.
C6_TerminatesWithTwoOutcomes ==
    /\ [](outcome # "raised")
    /\ [](Returned =>
             \/ \A k \in Positions : At2(result, k) \in Digits
             \/ \A k \in Positions : At2(result, k) = Unsolvable)
    /\ <>Returned

\* the search ran dry and the all -1 grid was returned
C6_Witness == ReturnedUnsolvable /\ searched

\* C7: no step changes the state a running depth_first_search was called
\* with, the receiver of its set_value calls: its cell values, candidate
\* lists and allocations stay as they are whatever the branches below do.
C7_ReceiverUnchanged ==
    [][\A k \in 1..Len(stack) :
          (stack[k].fn = "depth_first_search" /\ stack[k].self \in DOMAIN heap')
              => heap'[stack[k].self] = heap[stack[k].self]]_vars

\* set_value has returned a state other than its receiver for a second or
\* later sibling value
C7_Witness ==
    /\ At("depth_first_search", "made")
    /\ Top.k > 1
    /\ ret # Top.self
    /\ heap[ret] # heap[Top.self]

\* C8: in every PartialSudokuState, allocations[d] is the number of cells
\* whose value is d, for each digit d.
C8_AllocationsCount ==
    \A id \in DOMAIN heap :
        \A values \in {[k \in Positions |-> CellAt(heap[id], k).value]} :
            \A d \in Digits :
                heap[id].allocations[d] =
                    Cardinality({k \in Positions : values[k] = d})

\* a state in which values were set after construction
C8_Witness ==
    \E id \in DOMAIN heap : \E d \in Digits :
        heap[id].allocations[d] >
            Cardinality({k \in Positions : At2(sudoku, k) = d})

\* C9: when minimise has returned, no cell with value 0 has among its
\* candidates the value of a cell of its row, column or box.
C9_MinimiseFixedPoint ==
    At("sudoku_solver", "minimised") =>
        \A a, b \in Positions :
            (/\ Peers(a, b)
             /\ CellAt(heap[0], a).value = 0
             /\ CellAt(heap[0], b).value # 0)
                => ~In(CellAt(heap[0], b).value, CellAt(heap[0], a).candidates)

\* minimise has returned, it has set values, and blank cells with candidates remain
C9_Witness ==
    /\ At("sudoku_solver", "minimised")
    /\ to_array(heap[0]) # sudoku
    /\ \E a \in Positions :
          CellAt(heap[0], a).value = 0 /\ CellAt(heap[0], a).candidates # <<>>

\* the number of cells of S that hold digit d
Holding(S, d) == Cardinality({k \in Positions : CellAt(S, k).value = d})

\* position of v in list
IndexOf(list, v) == CHOOSE k \in 1..Len(list) : list[k] = v

\* C10: the values depth_first_search gets from order_values are the
\* candidates of the cell in ascending order of the number of cells that
\* hold each of them, candidates with equal numbers in their candidate order.
C10_OrderedByAllocation ==
    \A k \in 1..Len(stack) :
        (stack[k].fn = "depth_first_search" /\ stack[k].pc # "enter") =>
            LET values == stack[k].values
                candidates == stack[k].cell.candidates
                S == heap[stack[k].self]
            IN /\ Len(values) = Len(candidates)
               /\ \A v \in 1..Len(values) : In(values[v], candidates)
               /\ \A a, b \in 1..Len(values) :
                     a < b =>
                        \/ Holding(S, values[a]) < Holding(S, values[b])
                        \/ /\ Holding(S, values[a]) = Holding(S, values[b])
                           /\ IndexOf(candidates, values[a])
                                 < IndexOf(candidates, values[b])

\* the activations of depth_first_search that have chosen their cell
Searching == {k \in 1..Len(stack) :
                 stack[k].fn = "depth_first_search" /\ stack[k].pc # "enter"}

\* the cell of activation k came from random.choice: a cell that beats the
\* nine candidates of min_cell has fewer than nine, a random one has nine
ByRandomChoice(k) == Len(stack[k].cell.candidates) = Side

\* C11 as stated: no call of next_cell made during sudoku_solver executes
\* random.choice.
C11_RandomChoiceUnreachable ==
    \A k \in Searching : ~ByRandomChoice(k)

\* C11 amended: random.choice is executed only for the input grid without a
\* given, and there only in the outermost call of depth_first_search.
C11_RandomChoiceOnlyWithoutGivens ==
    \A k \in Searching :
        ByRandomChoice(k) =>
            /\ ~\E p \in Positions : At2(sudoku, p) # 0
            /\ ~\E j \in 1..(k - 1) : stack[j].fn = "depth_first_search"

\* the outermost call chose at random, a nested call chose by candidate count
C11_Witness ==
    \E j, k \in Searching : j < k /\ ByRandomChoice(j) /\ ~ByRandomChoice(k)

\* an unassigned cell of S has no candidate left
Dead(S) ==
    \E p \in Positions :
        CellAt(S, p).value = 0 /\ CellAt(S, p).candidates = <<>>

\* a contradiction in S: an unassigned cell with no candidate, or a duplicate
\* finalized value in a row, a column or a box
Contradiction(S) == Dead(S) \/ Duplicate(to_array(S))

\* C12 as stated: whenever the state set_value derived in the search contains
\* a contradiction, is_valid() returns false on it.
C12_ContradictionFailsIsValid ==
    At("depth_first_search", "made") /\ Contradiction(heap[ret])
        => ~is_valid(heap[ret])

\* C12 amended: is_valid() returns false on a derived state exactly when it
\* has a duplicate finalized value, and the branch is then left for the next
\* value; a derived state whose only contradiction is an unassigned cell
\* without candidates passes is_valid(), and the depth_first_search called on
\* a state with such a cell has an empty list of values and returns None from
\* it; nothing is raised.
C12_DeadBranchAbandoned ==
    /\ [](/\ outcome # "raised"
          /\ At("depth_first_search", "made") =>
                (is_valid(heap[ret]) <=> ~Duplicate(to_array(heap[ret])))
          /\ At("depth_first_search", "loop") /\ Dead(Self) =>
                Top.values = <<>>)
    /\ [][/\ At("depth_first_search", "made") /\ ~is_valid(heap[ret]) =>
                /\ Len(stack') = Len(stack)
                /\ Top'.pc = "loop" /\ Top'.k = Top.k + 1
          /\ At("depth_first_search", "loop") /\ Dead(Self) =>
                stack' = Pop /\ ret' = None]_vars

\* a nested depth_first_search runs on a derived state that has an unassigned
\* cell without candidates and that passed is_valid()
C12_Witness ==
    /\ At("depth_first_search", "loop")
    /\ Dead(Self) /\ is_valid(Self)
    /\ Top.values = <<>>
    /\ \E j \in 1..(Len(stack) - 1) : stack[j].fn = "depth_first_search"

\* the positions of the unassigned cells of S
Unassigned(S) == {p \in Positions : CellAt(S, p).value = 0}

\* the number of candidates of the cell of S at position p
Count(S, p) == Len(CellAt(S, p).candidates)

\* C13: when some unassigned cell of the state has fewer than 9 candidates,
\* the cell next_cell returned is an unassigned cell of the state, no
\* unassigned cell has fewer candidates, and no unassigned cell before it in
\* row-major order has as few.
C13_FewestCandidatesFirst ==
    At("depth_first_search", "loop") =>
        \A cell \in {Top.cell} :
            \A blank \in {Unassigned(Self)} :
                (\E p \in blank : Count(Self, p) < Side) =>
                    /\ cell.row \in Idx /\ cell.col \in Idx
                    /\ cell = Self.cells[cell.row][cell.col]
                    /\ cell.value = 0
                    /\ \A p \in blank :
                          /\ Len(cell.candidates) <= Count(Self, p)
                          /\ p < cell.row * Side + cell.col =>
                                Len(cell.candidates) < Count(Self, p)

\* next_cell returned a cell that is not the first unassigned one, and a
\* later unassigned cell has as few candidates as it has
C13_Witness ==
    /\ At("depth_first_search", "loop")
    /\ \E p, q \in Unassigned(Self) :
          /\ p < Top.cell.row * Side + Top.cell.col
          /\ q > Top.cell.row * Side + Top.cell.col
          /\ Count(Self, q) = Len(Top.cell.candidates)
          /\ Count(Self, q) > 0

\* the number of unassigned cells of unit that have d among their candidates
Places(S, unit, d) ==
    Cardinality({i \in 1..Side :
        /\ S.cells[unit[i][1]][unit[i][2]].value = 0
        /\ In(d, S.cells[unit[i][1]][unit[i][2]].candidates)})

\* some digit has exactly one place left in some row, column or box of S
HiddenSingle(S) ==
    \E unit \in AllUnits : \E d \in Digits : Places(S, unit, d) = 1

\* C14: in the state set_value returns to depth_first_search, no row, column
\* or box has a digit that is a candidate of exactly one unassigned cell.
C14_NoHiddenSingle ==
    At("depth_first_search", "made") => ~HiddenSingle(heap[ret])

\* set_value returned a state that is still open, with further cells
\* finalized besides the one it was called for
C14_Witness ==
    /\ At("depth_first_search", "made")
    /\ \E new_state \in {heap[ret]} :
          /\ ~is_goal(new_state) /\ ~Dead(new_state)
          /\ Cardinality(Unassigned(new_state)) + 2
                 < Cardinality(Unassigned(Self))
          /\ \E unit \in AllUnits : \E d \in Digits :
                Places(new_state, unit, d) > 1

\* some unassigned cell of S has exactly one candidate
NakedSingle(S) == \E p \in Unassigned(S) : Count(S, p) = 1

\* C15: when set_value_in_state returns, which is when the singleton_sweep
\* that ends it returns, no unassigned cell of the state has exactly one
\* candidate; the same holds of the state minimise leaves and of the state
\* set_value returns.
C15_NoNakedSingle ==
    /\ [][Running("singleton_sweep") /\ stack' = Pop =>
              ~NakedSingle(heap'[Top.self])]_vars
    /\ [](/\ At("sudoku_solver", "minimised") => ~NakedSingle(Self)
          /\ At("depth_first_search", "made") => ~NakedSingle(heap[ret]))

\* a set_value_in_state called by singleton_sweep is about to return, with
\* unassigned cells left
C15_Witness ==
    /\ Running("singleton_sweep")
    /\ Len(stack) > 1 /\ stack[Len(stack) - 1].fn = "singleton_sweep"
    /\ ~\E m \in Positions : Count(Self, m) = 1
    /\ Unassigned(Self) # {}

\* the number of unassigned cells of S
Open(S) == Cardinality(Unassigned(S))

\* the places of the stack that hold an activation of depth_first_search
Nested == {k \in 1..Len(stack) : stack[k].fn = "depth_first_search"}

\* a call is made in this step
Calls == Len(stack') = Len(stack) + 1

\* C16: a call of depth_first_search gets a state with fewer unassigned cells
\* than the state of every call it is nested in, and the depth of the
\* recursion is at most the number of unassigned cells of the minimised
\* initial state; every call of singleton_sweep comes with the finalization
\* of one unassigned cell, and a recursive call of sole_appearance_sweep is
\* made only after the second loop nest of a row, column or box sweep has
\* finalized one unassigned cell; sudoku_solver returns.
C16_SearchTerminates ==
    /\ [](At("depth_first_search", "enter") =>
             /\ \A j \in Nested \ {Len(stack)} :
                    Open(Self) < Open(heap[stack[j].self])
             /\ Cardinality(Nested) <= Open(heap[0])
             /\ Open(heap[0]) <= Side * Side)
    /\ [][/\ Calls /\ Top'.fn = "singleton_sweep" =>
                Open(heap'[Top'.self]) + 1 = Open(Self)
          /\ Calls /\ Top'.fn = "sole_appearance_sweep" /\ Top.fn \in SweepFn =>
                Top.pc = "resweep"
          /\ Calls /\ stack'[Len(stack)].pc = "resweep" =>
                /\ Top.fn \in SweepFn /\ Top.pc = "fill"
                /\ Open(heap'[Top.self]) + 1 = Open(Self)]_vars
    /\ <>Returned

\* three activations of depth_first_search are nested, and a
\* sole_appearance_sweep runs inside a sole_appearance_sweep
C16_Witness ==
    /\ Cardinality(Nested) >= 3
    /\ Running("sole_appearance_sweep")
    /\ \E j \in 1..(Len(stack) - 1) :
          stack[j].fn = "sole_appearance_sweep" /\ stack[j].self = Top.self

\* C17: every state set_value returns to depth_first_search is valid: no row,
\* column or box of it holds a finalized value twice; a call of
\* depth_first_search that has no value to try is on a state with an
\* unassigned cell with an empty candidate list.
C17_NewStateValid ==
    /\ At("depth_first_search", "made") =>
          is_valid(heap[ret]) /\ ~Duplicate(to_array(heap[ret]))
    /\ At("depth_first_search", "loop") /\ Top.values = <<>> => Dead(Self)

\* set_value returned a state that is a dead end: it is valid and has an
\* unassigned cell without candidates
C17_Witness ==
    /\ At("depth_first_search", "made")
    /\ is_valid(heap[ret])
    /\ Dead(heap[ret])

\* list a holds the elements of list b, each as often as b holds it, where
\* b holds no element twice
Permutation(a, b) ==
    /\ Len(a) = Len(b)
    /\ \A d \in Digits : In(d, a) <=> In(d, b)
    /\ \A m, n \in 1..Len(a) : a[m] = a[n] => m = n

\* C18: the values depth_first_search gets from order_values are a
\* permutation of the candidates of the cell, empty exactly when the cell has
\* no candidate; depth_first_search tries them one by one in their order,
\* each in a copy of its state, and returns None only when it is past the
\* last of them.
C18_EveryCandidateTried ==
    /\ [](Running("depth_first_search") /\ Top.pc # "enter" =>
             /\ Permutation(Top.values, Top.cell.candidates)
             /\ Top.values = <<>> <=> Top.cell.candidates = <<>>
             /\ Top.k \in 1..(Len(Top.values) + 1))
    /\ [][Running("depth_first_search") /\ Top.pc # "enter" =>
             /\ Len(stack') < Len(stack) /\ ret' = None =>
                   Top.pc = "loop" /\ Top.k = Len(Top.values) + 1
             /\ Len(stack') > Len(stack) /\ Top.pc = "loop" =>
                   /\ Top.k <= Len(Top.values)
                   /\ heap'[Top'.self].cells[Top.cell.row][Top.cell.col].value
                        = Top.values[Top.k]
             /\ Len(stack') = Len(stack) =>
                   /\ Top'.values = Top.values /\ Top'.cell = Top.cell
                   /\ Top'.k = Top.k + 1 /\ Top.pc \in {"made", "deep"}]_vars

\* depth_first_search is past the last of several values and about to
\* return None
C18_Witness ==
    /\ At("depth_first_search", "loop")
    /\ Top.k = Len(Top.values) + 1
    /\ Len(Top.values) >= 2
    /\ Permutation(Top.values, Top.cell.candidates)

\* C19: depth_first_search, and so next_cell, is only called on a state with
\* an unassigned cell: cell_choices is not empty, and random.choice is never
\* given an empty list, so that nothing is raised.
C19_SearchHasUnassignedCell ==
    /\ outcome # "raised"
    /\ At("depth_first_search", "enter") =>
          /\ ~is_goal(Self)
          /\ cell_choices_of(Self) # <<>>
          /\ next_cell(Self) # {}

\* a nested depth_first_search starts, below a call in which next_cell took
\* its cell from random.choice
C19_Witness ==
    /\ At("depth_first_search", "enter")
    /\ Unassigned(Self) # {}
    /\ \E j \in Searching : ByRandomChoice(j)

====
